---- MODULE Spec2Model ----
(***************************************************************************)
(* A model of the smart-planter repository: the camera capture manager     *)
(* (src/camera/camera.py) and the manual watering endpoint of the Flask    *)
(* application (src/app/app.py, served with threaded=True by main.py).     *)
(*                                                                         *)
(* Time is counted in ticks, TicksPerSecond to the second, from an epoch   *)
(* at tick 0.  A file name YYYYMMDD_HHMMSS.jpg is represented by the       *)
(* number of the second it denotes.                                        *)
(***************************************************************************)
EXTENDS Integers, FiniteSets, Sequences, TLC

\* ------------------------------------------------------------ bounds
TicksPerSecond == 2          \* clock resolution below the second
MaxFine == 3                 \* ticks the clock can advance in one behaviour
MaxRuns == 2                 \* calls of capture_and_save in one behaviour
MaxRequests == 2             \* POSTs to /api/watering in one behaviour

\* ------------------------------------------------- program constants
RETENTION_DAYS == 90
WATERING_INTERVAL_HOURS == 12
SecondsPerDay == 24 * 60 * 60

\* datetime.timedelta(days=RETENTION_DAYS), in ticks
RetentionTicks == RETENTION_DAYS * SecondsPerDay * TicksPerSecond

\* WATERING_INTERVAL_HOURS, in ticks
IntervalTicks == WATERING_INTERVAL_HOURS * 60 * 60 * TicksPerSecond

\* the two callers of capture_and_save: a manual request, the daily schedule
Callers == {"manual", "scheduled"}

\* the threads on which the server (app.run(threaded=True)) runs handlers
Threads == {"t1", "t2"}

\* ------------------------------------------------------------- clock
\* the program starts one retention window and a tick after the epoch
StartNow == RetentionTicks + 1

Instants == {StartNow + f : f \in 0..MaxFine}

\* the instants watering requests are observed at: the seconds after the
\* start, and those around one watering interval after it
WateringInstants ==
    {StartNow + j * (IntervalTicks - TicksPerSecond) + f * TicksPerSecond :
        j \in {0, 1}, f \in 0..MaxFine}

\* ------------------------------------------------------ pure functions
\* now.strftime("%Y%m%d_%H%M%S.jpg"): the sub-second part of now is dropped
get_file_name(t) == t \div TicksPerSecond

\* the instant a file name denotes (the start of its second)
NameTime(n) == n * TicksPerSecond

\* cv2.imwrite on a path: creates the file, or replaces the file of that name
imwrite(d, n, img, t) ==
    {f \in d : f.name # n} \cup {[name |-> n, ctime |-> t, img |-> img]}

\* the files delete_old_images removes at time t: os.path.getctime < cutoff
Expired(d, t) == {f \in d : f.ctime < t - RetentionTicks}

\* a sweep that stops after the first file it removes
delete_first_old_image(d, t) ==
    IF Expired(d, t) = {} THEN d ELSE d \ {CHOOSE f \in Expired(d, t) : TRUE}

delete_old_images(d, t) == d \ Expired(d, t)

\* ------------------------------------------------------------- state
VARIABLES
    now,        \* the wall clock, in ticks
    dir,        \* plant_images: a set of [name, ctime, img], names distinct
    pc,         \* where each caller stands in capture_and_save
    held,       \* the callers whose VideoCapture holds the camera device
    frame,      \* each caller's local frame
    run,        \* what each caller's current or last run did (observation)
    runs,       \* the calls of capture_and_save so far
    sweepLog,   \* the last two runs of delete_old_images (observation)
    wpc,        \* where each server thread stands in api_watering
    request,    \* the request each thread is handling or handled last
    response,   \* the last response each thread sent
    lastWatering, \* the timestamp of the last watering reported done
    requests    \* the POSTs to /api/watering so far

captureVars == <<dir, pc, held, frame, run, runs, sweepLog>>
wateringVars == <<wpc, request, response, lastWatering, requests>>
vars == <<now, captureVars, wateringVars>>

None == 0 - 1
NoRequest == [at |-> None, last |-> None]
NoResponse == [status |-> "none", timestamp |-> None]

\* a frame is told from the others by the number of the run that read it
NoFrame == 0
FreshRun(n) == [no |-> n, opened |-> FALSE, ret |-> FALSE, imw |-> "none",
                sweeps |-> 0, exit |-> "none"]

\* files found in plant_images at start: taken earlier, some of them copied
\* (a copy carries the name of the original and the ctime of the copy): each
\* was written at the start of its second or a tick later, or copied lately
OldFiles ==
    UNION {{[name |-> n, ctime |-> c, img |-> NoFrame] :
               c \in {NameTime(n), NameTime(n) + 1, StartNow}} : n \in {0, 1}}

InitDirs == {d \in SUBSET OldFiles : \A f, g \in d : f.name = g.name => f = g}

Init ==
    /\ now = StartNow
    /\ dir \in InitDirs
    /\ pc = [p \in Callers |-> "idle"]
    /\ held = {}
    /\ frame = [p \in Callers |-> NoFrame]
    /\ run = [p \in Callers |-> FreshRun(0)]
    /\ runs = 0
    /\ sweepLog = <<>>
    /\ wpc = [t \in Threads |-> "idle"]
    /\ request = [t \in Threads |-> NoRequest]
    /\ response = [t \in Threads |-> NoResponse]
    /\ lastWatering = None
    /\ requests = 0

\* ----------------------------------------------------------- actions
Tick ==
    /\ \E t \in Instants : t > now /\ now' = t
    /\ UNCHANGED <<captureVars, wateringVars>>

\* cap = cv2.VideoCapture(0); if not cap.isOpened(): return
\* No lock is taken, and whether the device opens (also while another caller
\* holds it) is the capture backend's answer, not the program's.
Open(p) ==
    /\ pc[p] = "idle"
    /\ p \notin held
    /\ runs < MaxRuns
    /\ runs' = runs + 1
    /\ \E ok \in BOOLEAN :
        IF ok
        THEN /\ held' = held \cup {p}
             /\ pc' = [pc EXCEPT ![p] = "opened"]
             /\ run' = [run EXCEPT ![p] = [FreshRun(runs') EXCEPT !.opened = TRUE]]
             /\ frame' = frame
        ELSE /\ held' = held
             /\ pc' = pc
             /\ run' = [run EXCEPT ![p] = [FreshRun(runs') EXCEPT !.exit = "return"]]
             /\ frame' = frame
    /\ UNCHANGED <<now, dir, sweepLog, wateringVars>>

\* a read failure that only prints, and falls through to the save
ReadFailedFallsThrough(p) ==
    /\ held' = held
    /\ pc' = [pc EXCEPT ![p] = "grabbed"]
    /\ frame' = [frame EXCEPT ![p] = run[p].no]
    /\ run' = run

\* ret is False: print, cap.release(), return
ReadFailed(p) ==
    /\ held' = held \ {p}
    /\ pc' = [pc EXCEPT ![p] = "idle"]
    /\ frame' = [frame EXCEPT ![p] = NoFrame]
    /\ run' = [run EXCEPT ![p].exit = "return"]

\* ret is True: the frame is kept and the run goes on
ReadDone(p) ==
    /\ held' = held
    /\ pc' = [pc EXCEPT ![p] = "grabbed"]
    /\ frame' = [frame EXCEPT ![p] = run[p].no]
    /\ run' = [run EXCEPT ![p].ret = TRUE]

\* cap.set(...); cap.set(...); ret, frame = cap.read(); if not ret: ...
Read(p) ==
    /\ pc[p] = "opened"
    /\ \E ret \in BOOLEAN : IF ret THEN ReadDone(p) ELSE ReadFailed(p)
    /\ UNCHANGED <<now, dir, runs, sweepLog, wateringVars>>

\* what cv2.imwrite can do: write the file, report failure by returning
\* False, or raise (cv2.error)
ImwriteOutcomes == {"written", "false", "raise"}

\* file_name = get_file_name(); save_image(frame, file_path): the name is
\* taken and the file written at the same instant; the value cv2.imwrite
\* returns is dropped, an exception it raises leaves capture_and_save at once
Save(p) ==
    /\ pc[p] = "grabbed"
    /\ \E o \in ImwriteOutcomes :
        /\ dir' = IF o = "written"
                  THEN imwrite(dir, get_file_name(now), frame[p], now)
                  ELSE dir
        /\ IF o = "raise"
           THEN /\ pc' = [pc EXCEPT ![p] = "idle"]
                /\ frame' = [frame EXCEPT ![p] = NoFrame]
                /\ run' = [run EXCEPT ![p].imw = o, ![p].exit = "raise"]
           ELSE /\ pc' = [pc EXCEPT ![p] = "saved"]
                /\ frame' = frame
                /\ run' = [run EXCEPT ![p].imw = o]
    /\ UNCHANGED <<now, held, runs, sweepLog, wateringVars>>

\* cap.release()
Release(p) ==
    /\ pc[p] = "saved"
    /\ held' = held \ {p}
    /\ pc' = [pc EXCEPT ![p] = "released"]
    /\ UNCHANGED <<now, dir, frame, run, runs, sweepLog, wateringVars>>

LastTwo(s) == IF Len(s) > 2 THEN Tail(s) ELSE s

\* delete_old_images(), then capture_and_save returns; the glob and the loop
\* over its files are taken as one step
Sweep(p) ==
    /\ pc[p] = "released"
    /\ dir' = delete_old_images(dir, now)
    /\ sweepLog' = LastTwo(Append(sweepLog,
                       [at |-> now, before |-> dir, after |-> dir']))
    /\ pc' = [pc EXCEPT ![p] = "idle"]
    /\ frame' = [frame EXCEPT ![p] = NoFrame]
    /\ run' = [run EXCEPT ![p].sweeps = @ + 1, ![p].exit = "return"]
    /\ UNCHANGED <<now, held, runs, wateringVars>>

\* a VideoCapture that capture_and_save left open is closed only when the
\* interpreter drops the object (the traceback is discarded, or the process
\* ends)
Finalize(p) ==
    /\ pc[p] = "idle"
    /\ p \in held
    /\ held' = held \ {p}
    /\ UNCHANGED <<now, dir, pc, frame, run, runs, sweepLog, wateringVars>>

NextCapture ==
    \/ Tick
    \/ \E p \in Callers :
        \/ Open(p)
        \/ Read(p)
        \/ Save(p)
        \/ Release(p)
        \/ Sweep(p)
        \/ Finalize(p)

\* the capture manager, called by two callers
SpecCapture == Init /\ [][NextCapture]_vars

\* ------------------------------------------- the watering endpoint
WateringTick ==
    /\ \E t \in WateringInstants : t > now /\ now' = t
    /\ UNCHANGED <<captureVars, wateringVars>>

\* POST /api/watering reaches a free thread, which enters api_watering:
\* logger.info("手動給水が実行されました")
WateringBegin(t) ==
    /\ wpc[t] = "idle"
    /\ requests < MaxRequests
    /\ requests' = requests + 1
    /\ wpc' = [wpc EXCEPT ![t] = "logged"]
    /\ request' = [request EXCEPT ![t] = [at |-> now, last |-> lastWatering]]
    /\ UNCHANGED <<now, captureVars, response, lastWatering>>

\* return jsonify({'status': 'success', 'message': ..., 'timestamp': now})
WateringRespond(t) ==
    /\ wpc[t] = "logged"
    /\ response' = [response EXCEPT
                      ![t] = [status |-> "success", timestamp |-> now]]
    /\ lastWatering' = now
    /\ wpc' = [wpc EXCEPT ![t] = "idle"]
    /\ UNCHANGED <<now, captureVars, request, requests>>

NextWatering ==
    \/ WateringTick
    \/ \E t \in Threads :
        \/ WateringBegin(t)
        \/ WateringRespond(t)

\* the manual watering endpoint, served on two threads
SpecWatering == Init /\ [][NextWatering]_vars

\* -------------------------------------------------------- properties
Finished(p) == run[p].exit # "none"

\* C1: a watering request made when fewer than WATERING_INTERVAL_HOURS have
\* passed since the last watering is never answered with success (it is
\* skipped); a request made at the interval or later is not skipped.
C1_TooSoonIsSkipped ==
    \A t \in Threads :
        (response[t].status # "none" /\ wpc[t] = "idle"
            /\ request[t].last # None) =>
            IF request[t].at - request[t].last < IntervalTicks
            THEN response[t].status = "skipped"
            ELSE response[t].status # "skipped"

\* C3: once capture_and_save has ended, by return or by an exception, a
\* camera device it opened is released.
C3_ReleasedOnEveryExit ==
    \A p \in Callers : (run[p].opened /\ Finished(p)) => p \notin held

\* C4: a sweep removes exactly the files whose name-embedded timestamp is
\* more than RETENTION_DAYS before the time of the sweep.
C4_SweepByNameTimestamp ==
    \A i \in 1..Len(sweepLog) :
        sweepLog[i].after =
            {f \in sweepLog[i].before :
                ~(sweepLog[i].at - NameTime(f.name) > RetentionTicks)}

\* C5: no step replaces an existing image file: a file of the directory is
\* still there unchanged after the step, or is gone (removed by a sweep).
C5_NeverOverwrites ==
    [][\A f \in dir : \A g \in dir' : f.name = g.name => f = g]_vars

\* C6: at no instant do two callers hold the camera device.
C6_OneCameraHolder == Cardinality(held) <= 1

C8_SweepOncePerSuccess ==
    \A p \in Callers :
        Finished(p) =>
            run[p].sweeps = (IF run[p].imw = "written" THEN 1 ELSE 0)

\* the last two sweeps ran at the same time, the second on the directory the
\* first left
SweptTwice ==
    /\ Len(sweepLog) = 2
    /\ sweepLog[1].at = sweepLog[2].at
    /\ sweepLog[2].before = sweepLog[1].after

\* C9: of two sweeps in succession at the same time with no capture in
\* between, the first leaves no expired file and the second removes nothing.
C9_SweepIdempotent ==
    SweptTwice =>
        /\ Expired(sweepLog[1].after, sweepLog[1].at) = {}
        /\ sweepLog[2].after = sweepLog[2].before

\* two sweeps in succession, the first of which removed a file
C9_Witness == SweptTwice /\ sweepLog[1].after # sweepLog[1].before

FailedEarly(r) == r.exit # "none" /\ (~r.opened \/ ~r.ret)

\* C10: the step that ends a run in which the camera did not open or the
\* first read failed is a normal return that leaves the directory as it is,
\* and that run has written no image and run no sweep.
C10_EarlyFailureLeavesDir ==
    [][\A p \in Callers :
          (run'[p] # run[p] /\ FailedEarly(run'[p])) =>
              /\ run'[p].exit = "return"
              /\ dir' = dir
              /\ run'[p].imw = "none"
              /\ run'[p].sweeps = 0]_vars

\* one caller's run ended on a camera that did not open, the other's on a
\* failed read, and the directory holds an image
C10_Witness ==
    /\ dir # {}
    /\ \E p, q \in Callers :
        /\ run[p].exit = "return" /\ ~run[p].opened
        /\ run[q].exit = "return" /\ run[q].opened /\ ~run[q].ret
        /\ pc[p] = "idle" /\ pc[q] = "idle"

====
